---- MODULE Spec2Model ----
(***************************************************************************)
(* Model of the loop macros of combinatorial.h and foreach.h                *)
(* (stairf/headers).                                                       *)
(*                                                                         *)
(* Every macro expands to                                                  *)
(*     for (locals;; --_) if (...) {...} else if (...) {...} else BODY     *)
(* One action of the model is one pass through the if-chain of a macro,    *)
(* including the --_ of the for header when the pass reaches it; the       *)
(* caller's BODY is an action of its own.                                  *)
(*                                                                         *)
(* The macro locals are named by underscores only, which TLA+ does not     *)
(* allow; they are called                                                  *)
(*     pos    _   (all macros)                                             *)
(*     flag   the "initialised" flag: __ (combination, multiset, subset),  *)
(*            ___ (ordered_subset), _____ (simple_permutation),            *)
(*            ______ (permutation)                                         *)
(*     scan   the scalar scratch index: __ (ordered_subset, permutation),  *)
(*            ___ (simple_permutation)                                     *)
(*     ctr    the per-position counter array: __ (simple_permutation),     *)
(*            ___ (permutation)                                            *)
(*     saved  ____ (permutation), the copy of the initial array            *)
(*     equiv  _____ (permutation), the equivalence index                   *)
(* and those of the each macro of foreach.h                                *)
(*     arr    _   the array built from the listed values                   *)
(*     it     __  the iterator, kept as its offset from _                  *)
(*     var    the loop variable _VARNAME                                   *)
(***************************************************************************)
EXTENDS Integers, Sequences, FiniteSets

\* ---------------------------------------------------------------- bounds
MaxLen  == 3      \* largest _LENGTH explored for the range macros
MaxPermLen == 4   \* largest _LENGTH explored for the permutation macros
MaxMax  == 3      \* _MIN and _MAX are drawn from 0..MaxMax
MaxVal  == 4      \* initial array entries are drawn from 1..MaxVal
SizeBits == 16    \* width given to size_t
MaxArgs == 3      \* most values listed in an each loop
MaxArg  == 4      \* largest value listed in an each loop
TypeBits == 2     \* width of _TYPE, taken to be an unsigned integer type

SizeMod == 2^SizeBits

\* ---------------------------------------------------------------- inputs
Cap == IF MaxLen > MaxPermLen THEN MaxLen ELSE MaxPermLen   \* slots of the caller's array
Idx == 0 .. Cap - 1
Elems == 1 .. MaxVal
Junk == {0, SizeMod - 1}           \* contents of an uninitialised size_t
RangeKinds == {"combination", "multiset", "subset", "ordered_subset"}
PermKinds  == {"simple_permutation", "permutation"}
\* the macros that declare locals without an initialiser
Uninitialised == {"ordered_subset", "simple_permutation", "permutation",
                  "old_permutation"}
Headers == {"combinatorial.h", "part_000", "foreach.h"}
KindsOf(h) ==
    IF h = "combinatorial.h" THEN RangeKinds \cup PermKinds
    ELSE IF h = "foreach.h" THEN {"each"}
    ELSE {"combination", "subset", "old_permutation"}
TypeMod == 2^TypeBits
TypeVals == 0 .. TypeMod - 1
\* the values listed in an each loop
ArgVals == {1, 2, MaxArg}
\* the macros that copy the elements of the array and never compare them
NoCompare == {"simple_permutation", "old_permutation"}

VARIABLES
    header,    \* which version of the header the macro comes from
    kind,      \* which macro
    LENGTH, MIN, MAX,   \* the macro arguments
    PTR,       \* the caller's array
    pos, flag, scan, ctr, saved, equiv,   \* the macro's locals
    writes,    \* number of stores into the caller's array so far
    swaps,     \* the exchanges of two array slots made so far, as pairs of indices
    pc,        \* "loop" | "body" | "exhausted" | "abandoned"
    PTR0,      \* the array as it was when the loop was entered
    emitted,   \* the vectors (each: the values) the body has seen, in order
    args,      \* each: the listed values
    arr, it, var,   \* each: the locals
    reads      \* each: the offsets at which the iterator has been dereferenced

vars == <<header, kind, LENGTH, MIN, MAX, PTR, pos, flag, scan, ctr, saved,
          equiv, writes, swaps, pc, PTR0, emitted, args, arr, it, var, reads>>

\* ------------------------------------------------------- size_t arithmetic
uadd(a, b) == (a + b) % SizeMod
usub(a, b) == (a - b + SizeMod) % SizeMod

\* the locals a macro pass reads and writes, as one record
Locals == [PTR |-> PTR, pos |-> pos, flag |-> flag, scan |-> scan,
           ctr |-> ctr, saved |-> saved, equiv |-> equiv,
           writes |-> writes, swaps |-> swaps, pc |-> pc]

\* RangeInit with the initialisation written as a do-while: slot 0 is stored even
\* when _LENGTH is 0
RangeInit_DoWhile(s, max, len) ==
    [s EXCEPT !.PTR = [k \in DOMAIN s.PTR |-> IF k < len \/ k = 0 THEN max ELSE s.PTR[k]],
              !.writes = @ + (IF len = 0 THEN 1 ELSE len),
              !.flag = 1,
              !.pos = usub(1, 1)]

\* for (_ = 0; _ < (_LENGTH); ++_) (_PTR)[_] = (_MAX);   _ = flag = 1;
\* followed by the --_ of the for header
RangeInit(s, max, len) ==
    [s EXCEPT !.PTR = [k \in DOMAIN s.PTR |-> IF k < len THEN max ELSE s.PTR[k]],
              !.writes = @ + len,
              !.flag = 1,
              !.pos = usub(1, 1)]

\* RangeCarry resetting the digit to _MAX - 1 instead of _MAX
RangeCarry_MaxMinusOne(s, max) ==
    IF s.pos # 0
    THEN [s EXCEPT !.PTR[s.pos] = max - 1, !.writes = @ + 1, !.pos = usub(s.pos, 1)]
    ELSE [s EXCEPT !.PTR[s.pos] = max - 1, !.writes = @ + 1, !.pc = "exhausted"]

\* if ((_PTR)[_] <= (_MIN)) { (_PTR)[_] = (_MAX); if (_) continue; else break; }
RangeCarry(s, max) ==
    IF s.pos # 0
    THEN [s EXCEPT !.PTR[s.pos] = max, !.writes = @ + 1, !.pos = usub(s.pos, 1)]
    ELSE [s EXCEPT !.PTR[s.pos] = max, !.writes = @ + 1, !.pc = "exhausted"]

\* each_combination comparing with < instead of <=
each_combination_Strict(s, min, max, len) ==
    IF s.flag = 0 THEN RangeInit(s, max, len)
    ELSE IF len = 0 /\ s.pos # 0 THEN [s EXCEPT !.pc = "exhausted"]
    ELSE IF s.pos < len THEN
        IF s.PTR[s.pos] < min THEN RangeCarry(s, max)
        ELSE [s EXCEPT !.PTR[s.pos] = @ - 1, !.writes = @ + 1,
                       !.pos = usub(uadd(s.pos, 2), 1)]
    ELSE [s EXCEPT !.pc = "body"]

each_combination(s, min, max, len) ==
    IF s.flag = 0 THEN RangeInit(s, max, len)
    ELSE IF len = 0 /\ s.pos # 0 THEN [s EXCEPT !.pc = "exhausted"]
    ELSE IF s.pos < len THEN
        IF s.PTR[s.pos] <= min THEN RangeCarry(s, max)
        ELSE [s EXCEPT !.PTR[s.pos] = @ - 1, !.writes = @ + 1,
                       !.pos = usub(uadd(s.pos, 2), 1)]
    ELSE [s EXCEPT !.pc = "body"]

\* ForceNext that never stores into the next slot
ForceNext_Unforced(s, len, bump) ==
    [s EXCEPT !.PTR[s.pos] = @ - 1,
              !.writes = @ + 1,
              !.pos = usub(uadd(uadd(s.pos, 1), 1), 1)]

\* (_PTR)[_]--; _++; if (_ < (_LENGTH) && (_PTR)[_] > (_PTR)[_-1]) (_PTR)[_] = v; _++;
\* where v is (_PTR)[_-1]+1 for each_multiset and (_PTR)[_-1] for each_subset;
\* followed by the --_ of the for header
ForceNext(s, len, bump) ==
    LET p1 == [s.PTR EXCEPT ![s.pos] = @ - 1]
        n  == uadd(s.pos, 1)
        forced == n < len /\ p1[n] > p1[n - 1]
    IN  [s EXCEPT !.PTR = IF forced THEN [p1 EXCEPT ![n] = p1[n - 1] + bump] ELSE p1,
                  !.writes = @ + (IF forced THEN 2 ELSE 1),
                  !.pos = usub(uadd(n, 1), 1)]

\* each_multiset forcing the next slot to (_PTR)[_-1] instead of (_PTR)[_-1]+1
each_multiset_NoBump(s, min, max, len) ==
    IF s.flag = 0 THEN RangeInit(s, max, len)
    ELSE IF len = 0 /\ s.pos # 0 THEN [s EXCEPT !.pc = "exhausted"]
    ELSE IF s.pos < len THEN
        IF s.PTR[s.pos] <= min THEN RangeCarry(s, max)
        ELSE ForceNext(s, len, 0)
    ELSE [s EXCEPT !.pc = "body"]

each_multiset(s, min, max, len) ==
    IF s.flag = 0 THEN RangeInit(s, max, len)
    ELSE IF len = 0 /\ s.pos # 0 THEN [s EXCEPT !.pc = "exhausted"]
    ELSE IF s.pos < len THEN
        IF s.PTR[s.pos] <= min THEN RangeCarry(s, max)
        ELSE ForceNext(s, len, 1)
    ELSE [s EXCEPT !.pc = "body"]

\* each_subset forcing the next slot to (_PTR)[_-1]+1 instead of (_PTR)[_-1]
each_subset_Bump(s, min, max, len) ==
    IF s.flag = 0 THEN RangeInit(s, max, len)
    ELSE IF len = 0 /\ s.pos # 0 THEN [s EXCEPT !.pc = "exhausted"]
    ELSE IF s.pos < len THEN
        IF s.PTR[s.pos] <= min THEN RangeCarry(s, max)
        ELSE ForceNext(s, len, 1)
    ELSE [s EXCEPT !.pc = "body"]

each_subset(s, min, max, len) ==
    IF s.flag = 0 THEN RangeInit(s, max, len)
    ELSE IF len = 0 /\ s.pos # 0 THEN [s EXCEPT !.pc = "exhausted"]
    ELSE IF s.pos < len THEN
        IF s.PTR[s.pos] <= min THEN RangeCarry(s, max)
        ELSE ForceNext(s, len, 0)
    ELSE [s EXCEPT !.pc = "body"]

\* for (__ = 0; __ < _ && (_PTR)[__] != (_PTR)[_]; ++__);   the value of __ after it
RECURSIVE ScanEqual(_, _, _)
ScanEqual(p, i, j) ==
    IF j < i /\ p[j] # p[i] THEN ScanEqual(p, i, uadd(j, 1)) ELSE j

\* PlaceDistinct advancing whatever the scan found
PlaceDistinct_NoReject(s) ==
    LET p1 == [s.PTR EXCEPT ![s.pos] = @ - 1]
        j  == ScanEqual(p1, s.pos, 0)
        n  == uadd(s.pos, 1)
    IN  [s EXCEPT !.PTR = p1, !.writes = @ + 1, !.scan = j,
                  !.pos = usub(uadd(n, 1), 1)]

\* (_PTR)[_]--; the scan; if (__ == _) _++; _++;   followed by the --_
PlaceDistinct(s) ==
    LET p1 == [s.PTR EXCEPT ![s.pos] = @ - 1]
        j  == ScanEqual(p1, s.pos, 0)
        n  == IF j = s.pos THEN uadd(s.pos, 1) ELSE s.pos
    IN  [s EXCEPT !.PTR = p1, !.writes = @ + 1, !.scan = j,
                  !.pos = usub(uadd(n, 1), 1)]

\* each_ordered_subset comparing with < instead of <=
each_ordered_subset_Strict(s, min, max, len) ==
    IF s.flag = 0 THEN RangeInit(s, max, len)
    ELSE IF len = 0 /\ s.pos # 0 THEN [s EXCEPT !.pc = "exhausted"]
    ELSE IF s.pos < len THEN
        IF s.PTR[s.pos] < min THEN RangeCarry(s, max)
        ELSE PlaceDistinct(s)
    ELSE [s EXCEPT !.pc = "body"]

each_ordered_subset(s, min, max, len) ==
    IF s.flag = 0 THEN RangeInit(s, max, len)
    ELSE IF len = 0 /\ s.pos # 0 THEN [s EXCEPT !.pc = "exhausted"]
    ELSE IF s.pos < len THEN
        IF s.PTR[s.pos] <= min THEN RangeCarry(s, max)
        ELSE PlaceDistinct(s)
    ELSE [s EXCEPT !.pc = "body"]

\* swap (_PTR)[a] and (_PTR)[b] through the temporary ____ (three memcpy calls)
Swap(p, a, b) == [p EXCEPT ![a] = p[b], ![b] = p[a]]

\* Ascend that also exchanges when the counter has reached the width less one
Ascend_Inclusive(s, len) ==
    LET d == usub(s.pos, 1)
        w == usub(len, d)
        doswap == s.ctr[d] <= usub(w, 1)
        t == IF w % 2 # 0 THEN 0 ELSE s.ctr[d]
    IN  [s EXCEPT !.pos = d,
                  !.scan = IF doswap THEN t ELSE @,
                  !.PTR = IF doswap THEN Swap(@, usub(w, 1), t) ELSE @,
                  !.writes = @ + (IF doswap THEN 2 ELSE 0),
                  !.swaps = IF doswap THEN Append(@, <<usub(w, 1), t>>) ELSE @,
                  !.ctr[d] = uadd(@, 1)]

\* Ascend with the parity test of the swap partner inverted
Ascend_Parity(s, len) ==
    LET d == usub(s.pos, 1)
        w == usub(len, d)
        doswap == s.ctr[d] < usub(w, 1)
        t == IF w % 2 # 0 THEN s.ctr[d] ELSE 0
    IN  [s EXCEPT !.pos = d,
                  !.scan = IF doswap THEN t ELSE @,
                  !.PTR = IF doswap THEN Swap(@, usub(w, 1), t) ELSE @,
                  !.writes = @ + (IF doswap THEN 2 ELSE 0),
                  !.swaps = IF doswap THEN Append(@, <<usub(w, 1), t>>) ELSE @,
                  !.ctr[d] = uadd(@, 1)]

\* _--; if (__[_] < len - _ - 1) { ___ = ((len - _) % 2) ? 0 : __[_]; swap } __[_]++;
Ascend(s, len) ==
    LET d == usub(s.pos, 1)
        w == usub(len, d)
        doswap == s.ctr[d] < usub(w, 1)
        t == IF w % 2 # 0 THEN 0 ELSE s.ctr[d]
    IN  [s EXCEPT !.pos = d,
                  !.scan = IF doswap THEN t ELSE @,
                  !.PTR = IF doswap THEN Swap(@, usub(w, 1), t) ELSE @,
                  !.writes = @ + (IF doswap THEN 2 ELSE 0),
                  !.swaps = IF doswap THEN Append(@, <<usub(w, 1), t>>) ELSE @,
                  !.ctr[d] = uadd(@, 1)]

each_simple_permutation(s, len) ==
    IF s.flag = 0 THEN [s EXCEPT !.ctr[0] = 0, !.flag = 1]
    ELSE IF len = 0 /\ s.ctr[s.pos] # 0 THEN [s EXCEPT !.pc = "exhausted"]
    ELSE IF usub(len, s.pos) >= 2 /\ s.ctr[s.pos] < usub(len, s.pos)
        THEN [s EXCEPT !.pos = uadd(s.pos, 1), !.ctr[uadd(s.pos, 1)] = 0]
    ELSE IF len # 0 /\ s.ctr[s.pos] >= usub(len, s.pos) THEN
        IF s.pos = 0 THEN [s EXCEPT !.pc = "exhausted"]
        ELSE Ascend(s, len)
    ELSE [s EXCEPT !.ctr[s.pos] = uadd(usub(len, s.pos), 1), !.pc = "body"]

\* FirstEqual that finds the nearest equal element before i, not the first
FirstEqual_Nearest(p, i, j) ==
    IF \E m \in 0 .. i - 1 : p[m] = p[i]
    THEN CHOOSE m \in 0 .. i - 1 :
            p[m] = p[i] /\ \A n \in m + 1 .. i - 1 : p[n] # p[i]
    ELSE i

\* FirstEqual that never finds an equal element
FirstEqual_None(p, i, j) == i

\* for (__ = 0; __ < _ && !((_PTR)[_] == (_PTR)[__]); ++__);   the value of __ after it
RECURSIVE FirstEqual(_, _, _)
FirstEqual(p, i, j) ==
    IF j < i /\ ~(p[i] = p[j]) THEN FirstEqual(p, i, uadd(j, 1)) ELSE j

\* the initialisation loop of each_permutation, then _ = ______ = 1 and the --_
PermInit(s, len) ==
    [s EXCEPT !.equiv = [k \in DOMAIN @ |-> IF k < len THEN FirstEqual(s.PTR, k, 0) ELSE @[k]],
              !.ctr   = [k \in DOMAIN @ |-> IF k < len THEN len ELSE @[k]],
              !.saved = [k \in DOMAIN @ |-> IF k < len THEN s.PTR[k] ELSE @[k]],
              !.scan  = IF len > 0 THEN FirstEqual(s.PTR, len - 1, 0) ELSE @,
              !.flag = 1,
              !.pos = usub(1, 1)]

\* ScanClass that only rejects a source index already in use
RECURSIVE ScanClass_NoOrder(_, _, _, _)
ScanClass_NoOrder(c, e, i, j) ==
    IF j < i /\ c[j] # c[i] THEN ScanClass_NoOrder(c, e, i, uadd(j, 1)) ELSE j

\* ScanClass with the order test on the source indices inverted
RECURSIVE ScanClass_Reversed(_, _, _, _)
ScanClass_Reversed(c, e, i, j) ==
    IF j < i /\ (e[c[i]] # e[c[j]] \/ c[j] > c[i])
    THEN ScanClass_Reversed(c, e, i, uadd(j, 1)) ELSE j

\* for (__ = 0; __ < _ && (_____[___[_]] != _____[___[__]] || ___[__] < ___[_]); ++__);
RECURSIVE ScanClass(_, _, _, _)
ScanClass(c, e, i, j) ==
    IF j < i /\ (e[c[i]] # e[c[j]] \/ c[j] < c[i])
    THEN ScanClass(c, e, i, uadd(j, 1)) ELSE j

\* Candidate that does not store the decremented counter when it retries
Candidate_Stuck(s, len) ==
    LET c1 == [s.ctr EXCEPT ![s.pos] = @ - 1]
        j  == ScanClass(c1, s.equiv, s.pos, 0)
    IN  IF j = s.pos
        THEN [s EXCEPT !.ctr = c1, !.scan = j,
                       !.PTR[j] = s.saved[c1[j]], !.writes = @ + 1,
                       !.pos = usub(uadd(uadd(s.pos, 1), 1), 1)]
        ELSE IF c1[j] > c1[s.pos]
        THEN [s EXCEPT !.ctr = [k \in DOMAIN c1 |->
                                   IF j < k /\ k <= s.pos THEN len ELSE c1[k]],
                       !.scan = j,
                       !.pos = usub(uadd(j, 1), 1)]
        ELSE [s EXCEPT !.scan = j,
                       !.pos = usub(uadd(s.pos, 1), 1)]

\* ___[_]--; the scan; place, prune or retry; _++;   followed by the --_
Candidate(s, len) ==
    LET c1 == [s.ctr EXCEPT ![s.pos] = @ - 1]
        j  == ScanClass(c1, s.equiv, s.pos, 0)
    IN  IF j = s.pos
        THEN [s EXCEPT !.ctr = c1, !.scan = j,
                       !.PTR[j] = s.saved[c1[j]], !.writes = @ + 1,
                       !.pos = usub(uadd(uadd(s.pos, 1), 1), 1)]
        ELSE IF c1[j] > c1[s.pos]
        THEN [s EXCEPT !.ctr = [k \in DOMAIN c1 |->
                                   IF j < k /\ k <= s.pos THEN len ELSE c1[k]],
                       !.scan = j,
                       !.pos = usub(uadd(j, 1), 1)]
        ELSE [s EXCEPT !.ctr = c1, !.scan = j,
                       !.pos = usub(uadd(s.pos, 1), 1)]

\* if (!___[_]) { ___[_] = (_LENGTH); if (_) continue; else break; }
PermCarry(s, len) ==
    IF s.pos # 0
    THEN [s EXCEPT !.ctr[s.pos] = len, !.pos = usub(s.pos, 1)]
    ELSE [s EXCEPT !.ctr[s.pos] = len, !.pc = "exhausted"]

each_permutation(s, len) ==
    IF s.flag = 0 THEN PermInit(s, len)
    ELSE IF len = 0 /\ s.pos # 0 THEN [s EXCEPT !.pc = "exhausted"]
    ELSE IF s.pos < len THEN
        IF s.ctr[s.pos] = 0 THEN PermCarry(s, len)
        ELSE Candidate(s, len)
    ELSE [s EXCEPT !.pc = "body"]

\* ------------------------------------- each_permutation of the older header
\* memcpy(____, _PTR, ...); for (_ = 0; _ < (_LENGTH); ++_) ___[_] = (_LENGTH);
\* _ = _____ = 1;   followed by the --_ of the for header
OldInit(s, len) ==
    [s EXCEPT !.saved = [k \in DOMAIN @ |-> IF k < len THEN s.PTR[k] ELSE @[k]],
              !.ctr   = [k \in DOMAIN @ |-> IF k < len THEN len ELSE @[k]],
              !.flag = 1,
              !.pos = usub(1, 1)]

\* OldScan that never finds the index in use at an earlier position
OldScan_NoReject(c, i, j) == i

\* for (__ = 0; __ < _ && ___[__] != ___[_]; ++__);
RECURSIVE OldScan(_, _, _)
OldScan(c, i, j) ==
    IF j < i /\ c[j] # c[i] THEN OldScan(c, i, uadd(j, 1)) ELSE j

\* ___[_]--; the scan; if (__ == _) { _++; at _ == _LENGTH copy the whole
\* arrangement into the array }; _++;   followed by the --_
OldCandidate(s, len) ==
    LET c1 == [s.ctr EXCEPT ![s.pos] = @ - 1]
        j  == OldScan(c1, s.pos, 0)
        p1 == uadd(s.pos, 1)
    IN  IF j = s.pos
        THEN IF p1 = len
             THEN [s EXCEPT !.ctr = c1, !.scan = p1,
                            !.PTR = [k \in DOMAIN @ |->
                                        IF k < len THEN s.saved[c1[k]] ELSE @[k]],
                            !.writes = @ + len,
                            !.pos = usub(uadd(p1, 1), 1)]
             ELSE [s EXCEPT !.ctr = c1, !.scan = j,
                            !.pos = usub(uadd(p1, 1), 1)]
        ELSE [s EXCEPT !.ctr = c1, !.scan = j,
                       !.pos = usub(uadd(s.pos, 1), 1)]

\* if (!___[_]) { ___[_] = (_LENGTH); if (_) continue; else break; }
OldCarry(s, len) ==
    IF s.pos # 0
    THEN [s EXCEPT !.ctr[s.pos] = len, !.pos = usub(s.pos, 1)]
    ELSE [s EXCEPT !.ctr[s.pos] = len, !.pc = "exhausted"]

old_each_permutation(s, len) ==
    IF s.flag = 0 THEN OldInit(s, len)
    ELSE IF len = 0 /\ s.pos # 0 THEN [s EXCEPT !.pc = "exhausted"]
    ELSE IF s.pos < len THEN
        IF s.ctr[s.pos] = 0 THEN OldCarry(s, len)
        ELSE OldCandidate(s, len)
    ELSE [s EXCEPT !.pc = "body"]

Assign(r) ==
    /\ PTR' = r.PTR /\ pos' = r.pos /\ flag' = r.flag /\ scan' = r.scan
    /\ ctr' = r.ctr /\ saved' = r.saved /\ equiv' = r.equiv
    /\ writes' = r.writes /\ swaps' = r.swaps /\ pc' = r.pc

Vector(p, len) == [k \in 1 .. len |-> p[k - 1]]

\* The range macros are given an array of arbitrary content.  The permutation
\* macros are given an initialised array; they only compare elements with ==
\* and copy them, so one array per pattern of equal elements is enumerated: the
\* first element is 1 and each element is at most one more than the largest
\* element before it.  Slots from len on are not part of the array and hold 0.
\* The macros that never compare elements are given the array of distinct
\* entries and the array of equal entries (the older each_permutation requires
\* every entry to be unique; the latter array is beyond its contract).
InitialArrays(k, len) ==
    IF k \in RangeKinds
    THEN {[i \in Idx |-> v] : v \in {0, MaxVal}}
    ELSE {p \in [Idx -> Elems \cup {0}] :
            /\ \A i \in Idx :
                  IF i < len
                  THEN /\ p[i] # 0
                       /\ \A v \in 1 .. p[i] - 1 : \E j \in 0 .. i - 1 : p[j] = v
                  ELSE p[i] = 0
            /\ k \in NoCompare =>
                  \/ \A i \in Idx : i < len => p[i] = i + 1
                  \/ \A i \in Idx : i < len => p[i] = 1}

\* each: _LENGTH stands for the number of listed values, sizeof(_)/sizeof(*_)
Lengths(k) ==
    IF k \in RangeKinds THEN 0 .. MaxLen
    ELSE IF k = "each" THEN 1 .. MaxArgs
    ELSE 0 .. MaxPermLen

Init ==
    /\ header \in Headers
    /\ kind \in KindsOf(header)
    /\ LENGTH \in Lengths(kind)
    /\ MIN \in (IF kind \in RangeKinds THEN 0 .. MaxMax ELSE {0})
    /\ MAX \in (IF kind \in RangeKinds THEN 0 .. MaxMax ELSE {0})
    /\ PTR \in (IF kind = "each" THEN {[i \in Idx |-> 0]} ELSE InitialArrays(kind, LENGTH))
    /\ PTR0 = PTR
    /\ pos \in (IF header = "part_000" THEN Junk ELSE {0})
    /\ flag = 0
    /\ scan \in (IF kind \in Uninitialised THEN Junk ELSE {0})
    /\ ctr = [i \in Idx |-> scan]
    /\ saved = [i \in Idx |-> 0]
    /\ equiv = [i \in Idx |-> scan]
    /\ writes = 0
    /\ swaps = <<>>
    /\ pc = "loop"
    /\ emitted = <<>>
    /\ args \in (IF kind = "each" THEN [1 .. LENGTH -> ArgVals] ELSE {<<>>})
    /\ arr = <<>>
    /\ it = 0
    /\ var = 0
    /\ reads = {}

Inputs == <<header, kind, LENGTH, MIN, MAX, PTR0, args>>
EachLocals == <<arr, it, var, reads>>
MacroLocals == <<PTR, pos, scan, ctr, saved, equiv, writes, swaps>>

\* what the body sees
Seen == IF kind = "each" THEN var ELSE Vector(PTR, LENGTH)

\* the conversion of a listed value to _TYPE in the initialiser of _
Convert(v) == v % TypeMod

\* *p for the pointer p = _ + i; outside the array the read yields whatever
\* the memory there holds, g
Deref(a, i, g) == IF i \in DOMAIN a THEN a[i] ELSE g

\* the loop condition with <= for <
EachCond_Inclusive(i, n) == i <= n

\* __ < _ + sizeof(_)/sizeof(*_)
EachCond(i, n) == i < n

\* _TYPE _[] = { __VA_ARGS__ }, *__ = _, _VARNAME = *__
EachEnter ==
    /\ pc = "loop" /\ kind = "each" /\ flag = 0
    /\ arr' = [k \in 0 .. Len(args) - 1 |-> Convert(args[k + 1])]
    /\ it' = 0
    /\ \E g \in (IF 0 \in DOMAIN arr' THEN {0} ELSE TypeVals) : var' = Deref(arr', 0, g)
    /\ reads' = reads \cup {0}
    /\ flag' = 1
    /\ UNCHANGED <<Inputs, MacroLocals, pc, emitted>>

\* the loop condition is evaluated: the body is entered or the loop ends
EachTest ==
    /\ pc = "loop" /\ kind = "each" /\ flag = 1
    /\ pc' = IF EachCond(it, LENGTH) THEN "body" ELSE "exhausted"
    /\ UNCHANGED <<Inputs, MacroLocals, EachLocals, flag, emitted>>

\* the body runs to its end (or to a continue); then _VARNAME = *++__
EachBody ==
    /\ pc = "body" /\ kind = "each"
    /\ emitted' = Append(emitted, Seen)
    /\ it' = it + 1
    /\ \E g \in (IF it' \in DOMAIN arr THEN {0} ELSE TypeVals) : var' = Deref(arr, it', g)
    /\ reads' = reads \cup {it'}
    /\ pc' = "loop"
    /\ UNCHANGED <<Inputs, MacroLocals, arr, flag>>

Combination ==
    /\ pc = "loop" /\ kind = "combination"
    /\ Assign(each_combination(Locals, MIN, MAX, LENGTH))
    /\ UNCHANGED <<Inputs, EachLocals, emitted>>

Multiset ==
    /\ pc = "loop" /\ kind = "multiset"
    /\ Assign(each_multiset(Locals, MIN, MAX, LENGTH))
    /\ UNCHANGED <<Inputs, EachLocals, emitted>>

Subset ==
    /\ pc = "loop" /\ kind = "subset"
    /\ Assign(each_subset(Locals, MIN, MAX, LENGTH))
    /\ UNCHANGED <<Inputs, EachLocals, emitted>>

OrderedSubset ==
    /\ pc = "loop" /\ kind = "ordered_subset"
    /\ Assign(each_ordered_subset(Locals, MIN, MAX, LENGTH))
    /\ UNCHANGED <<Inputs, EachLocals, emitted>>

SimplePermutation ==
    /\ pc = "loop" /\ kind = "simple_permutation"
    /\ Assign(each_simple_permutation(Locals, LENGTH))
    /\ UNCHANGED <<Inputs, EachLocals, emitted>>

Permutation ==
    /\ pc = "loop" /\ kind = "permutation"
    /\ Assign(each_permutation(Locals, LENGTH))
    /\ UNCHANGED <<Inputs, EachLocals, emitted>>

OldPermutation ==
    /\ pc = "loop" /\ kind = "old_permutation"
    /\ Assign(old_each_permutation(Locals, LENGTH))
    /\ UNCHANGED <<Inputs, EachLocals, emitted>>

\* the end of the caller's statement (or a continue in it): the --_ of the for
\* header; each_simple_permutation has no such expression
AfterBody(k, s) ==
    [s EXCEPT !.pos = IF k = "simple_permutation" THEN @ ELSE usub(@, 1),
              !.pc = "loop"]

Body ==
    /\ pc = "body" /\ kind # "each"
    /\ emitted' = Append(emitted, Seen)
    /\ Assign(AfterBody(kind, Locals))
    /\ UNCHANGED <<Inputs, EachLocals>>

\* Break that puts the array back as it was when the loop was entered
Break_Restore ==
    /\ pc = "body"
    /\ emitted' = Append(emitted, Seen)
    /\ PTR' = PTR0
    /\ pc' = "abandoned"
    /\ UNCHANGED <<Inputs, EachLocals, pos, flag, scan, ctr, saved, equiv, writes, swaps>>

\* the caller's statement leaves the loop with break
Break ==
    /\ pc = "body"
    /\ emitted' = Append(emitted, Seen)
    /\ pc' = "abandoned"
    /\ UNCHANGED <<Inputs, EachLocals, PTR, pos, flag, scan, ctr, saved, equiv, writes, swaps>>

Next ==
    \/ Combination \/ Multiset \/ Subset \/ OrderedSubset
    \/ SimplePermutation \/ Permutation \/ OldPermutation
    \/ Body \/ Break
    \/ EachEnter \/ EachTest \/ EachBody

Spec == Init /\ [][Next]_vars

\* the loop is sequential code: it keeps running until it is left
FairSpec == Spec /\ WF_vars(Next)

\* ------------------------------------------------------------ mathematics
RECURSIVE Factorial(_)
Factorial(n) == IF n <= 0 THEN 1 ELSE n * Factorial(n - 1)

RECURSIVE Power(_, _)
Power(b, e) == IF e <= 0 THEN 1 ELSE b * Power(b, e - 1)

Binomial(n, k) ==
    IF k < 0 \/ k > n THEN 0 ELSE Factorial(n) \div (Factorial(k) * Factorial(n - k))

Range(s) == {s[k] : k \in 1 .. Len(s)}
NoRepeat(s) == \A a, b \in 1 .. Len(s) : a # b => s[a] # s[b]
Count(v, x) == Cardinality({k \in 1 .. Len(v) : v[k] = x})
\* the multiset of entries of a vector, as a function from values to counts
BagOf(v, vals) == [x \in vals |-> Count(v, x)]
Exhausted(k) == pc = "exhausted" /\ kind = k
Digits == MIN .. MAX - 1

\* C1: each_combination run to exhaustion with MIN < MAX executes the body
\* (MAX-MIN)^LENGTH times and the vectors seen are exactly the vectors of
\* [MIN,MAX)^LENGTH, each seen once.
C1_CombinationExact ==
    (Exhausted("combination") /\ MIN < MAX) =>
        /\ Len(emitted) = Power(MAX - MIN, LENGTH)
        /\ Range(emitted) = [1 .. LENGTH -> Digits]
        /\ NoRepeat(emitted)

C1_Witness ==
    /\ Exhausted("combination") /\ header = "part_000"
    /\ LENGTH = 3 /\ MAX - MIN = 2 /\ Len(emitted) = 8

\* C2: each_subset run to exhaustion with MIN < MAX executes the body
\* C(MAX-MIN, LENGTH) times (zero times when LENGTH > MAX-MIN), every vector has
\* pairwise-distinct entries in [MIN,MAX), and every LENGTH-element subset of
\* [MIN,MAX) is the entry set of exactly one vector.
C2_SubsetExact ==
    (Exhausted("subset") /\ MIN < MAX) =>
        /\ Len(emitted) = Binomial(MAX - MIN, LENGTH)
        /\ LENGTH > MAX - MIN => Len(emitted) = 0
        /\ \A k \in 1 .. Len(emitted) :
              /\ NoRepeat(emitted[k])
              /\ Range(emitted[k]) \subseteq Digits
        /\ \A S \in SUBSET Digits :
              Cardinality(S) = LENGTH =>
                 Cardinality({k \in 1 .. Len(emitted) : Range(emitted[k]) = S}) = 1

C2_Witness ==
    /\ Exhausted("subset")
    /\ LENGTH = 2 /\ MAX - MIN = 3 /\ Len(emitted) = 3

\* C3: each_multiset run to exhaustion with MIN < MAX executes the body
\* C(MAX-MIN+LENGTH-1, LENGTH) times, and vector -> multiset of entries is a
\* bijection onto the LENGTH-element multisets over [MIN,MAX).
C3_MultisetExact ==
    (Exhausted("multiset") /\ MIN < MAX) =>
        /\ Len(emitted) = Binomial(MAX - MIN + LENGTH - 1, LENGTH)
        /\ \A k \in 1 .. Len(emitted) : Range(emitted[k]) \subseteq Digits
        /\ \A a, b \in 1 .. Len(emitted) :
              a # b => BagOf(emitted[a], Digits) # BagOf(emitted[b], Digits)
        /\ \A v \in [1 .. LENGTH -> Digits] :
              \E k \in 1 .. Len(emitted) :
                 BagOf(emitted[k], Digits) = BagOf(v, Digits)

C3_Witness ==
    /\ Exhausted("multiset")
    /\ LENGTH = 3 /\ MAX - MIN = 3 /\ Len(emitted) = 10
\* one pass of the macro named k
Pass(k, s, min, max, len) ==
    CASE k = "combination"        -> each_combination(s, min, max, len)
      [] k = "multiset"           -> each_multiset(s, min, max, len)
      [] k = "subset"             -> each_subset(s, min, max, len)
      [] k = "ordered_subset"     -> each_ordered_subset(s, min, max, len)
      [] k = "simple_permutation" -> each_simple_permutation(s, len)
      [] k = "permutation"        -> each_permutation(s, len)
      [] k = "old_permutation"    -> old_each_permutation(s, len)

\* the locals of a loop that is about to be entered on the array p
Entry(p) ==
    [PTR |-> p, pos |-> 0, flag |-> 0, scan |-> 0, ctr |-> [i \in Idx |-> 0],
     saved |-> [i \in Idx |-> 0], equiv |-> [i \in Idx |-> 0],
     writes |-> 0, swaps |-> <<>>, pc |-> "loop"]

\* the vectors the body sees when the loop of macro k runs from s to exhaustion
RECURSIVE Run(_, _, _, _, _, _)
Run(k, s, min, max, len, out) ==
    IF s.pc = "loop" THEN Run(k, Pass(k, s, min, max, len), min, max, len, out)
    ELSE IF s.pc = "body"
    THEN Run(k, AfterBody(k, s), min, max, len, Append(out, Vector(s.PTR, len)))
    ELSE out

EntrySets(k) == {Range(v) : v \in Range(Run(k, Entry(PTR0), MIN, MAX, LENGTH, <<>>))}

\* C4: each_ordered_subset run to exhaustion with MIN < MAX produces
\* LENGTH! * C(MAX-MIN, LENGTH) vectors, all different as sequences, each with
\* pairwise-distinct entries in [MIN,MAX); their entry sets are exactly the entry
\* sets each_subset produces for the same MIN, MAX and LENGTH.
C4_OrderedSubsetExact ==
    (Exhausted("ordered_subset") /\ MIN < MAX) =>
        /\ Len(emitted) = Factorial(LENGTH) * Binomial(MAX - MIN, LENGTH)
        /\ NoRepeat(emitted)
        /\ \A k \in 1 .. Len(emitted) :
              /\ NoRepeat(emitted[k])
              /\ Range(emitted[k]) \subseteq Digits
        /\ {Range(v) : v \in Range(emitted)} = EntrySets("subset")

C4_Witness ==
    /\ Exhausted("ordered_subset")
    /\ LENGTH = 2 /\ MAX - MIN = 3 /\ Len(emitted) = 6

Initial == Vector(PTR0, LENGTH)

RECURSIVE Product(_, _)
Product(f, S) ==
    IF S = {} THEN 1
    ELSE LET x == CHOOSE y \in S : TRUE IN f[x] * Product(f, S \ {x})

\* L!/(m1!*...*mk!) for the vector v
Arrangements(v) ==
    Factorial(Len(v)) \div
        Product([x \in Range(v) |-> Factorial(Count(v, x))], Range(v))

\* C5: each_permutation (combinatorial.h) run to exhaustion executes the body
\* L!/(m1!*...*mk!) times for an initial array with multiplicities m1..mk; every
\* vector is a rearrangement of the initial array and no two vectors are equal.
C5_PermutationExact ==
    Exhausted("permutation") =>
        /\ Len(emitted) = Arrangements(Initial)
        /\ \A k \in 1 .. Len(emitted) :
              BagOf(emitted[k], Elems) = BagOf(Initial, Elems)
        /\ NoRepeat(emitted)

C5_Witness ==
    /\ Exhausted("permutation")
    /\ LENGTH = 4 /\ Initial = <<1, 2, 1, 2>> /\ Len(emitted) = 6

\* the orderings of the vector v of pairwise-distinct values
Orderings(v) == {w \in [1 .. Len(v) -> Range(v)] : Range(w) = Range(v)}

\* C6: each_simple_permutation run to exhaustion on LENGTH pairwise-distinct
\* values executes the body LENGTH! times, and every one of the LENGTH!
\* orderings of the initial array is produced exactly once.
C6_SimplePermutationExact ==
    (Exhausted("simple_permutation") /\ NoRepeat(Initial)) =>
        /\ Len(emitted) = Factorial(LENGTH)
        /\ Range(emitted) = Orderings(Initial)
        /\ NoRepeat(emitted)

C6_Witness ==
    /\ Exhausted("simple_permutation") /\ NoRepeat(Initial)
    /\ LENGTH = 4 /\ Len(emitted) = 24

\* C7: when each_permutation (combinatorial.h) ends by exhaustion, the array is
\* position by position equal to the array the loop was entered with.
C7_PermutationRestores ==
    Exhausted("permutation") => PTR = PTR0

C7_Witness ==
    /\ Exhausted("permutation") /\ PTR = PTR0 /\ LENGTH = 4
    /\ Initial = <<1, 2, 2, 1>>
    /\ \E k \in 1 .. Len(emitted) : emitted[k] # Initial

\* C8 as stated: after exhaustion of a range macro with LENGTH >= 1 and
\* MIN < MAX every entry 0..LENGTH-1 holds MAX-1.
C8_ResetToMaxMinusOne ==
    (pc = "exhausted" /\ kind \in RangeKinds /\ LENGTH >= 1 /\ MIN < MAX) =>
        \A i \in 0 .. LENGTH - 1 : PTR[i] = MAX - 1

\* C8 amended: after exhaustion of a range macro with LENGTH >= 1 and MIN < MAX
\* every entry 0..LENGTH-1 holds MAX, the value the initialisation stored.
C8_ResetToMax ==
    (pc = "exhausted" /\ kind \in RangeKinds /\ LENGTH >= 1 /\ MIN < MAX) =>
        \A i \in 0 .. LENGTH - 1 : PTR[i] = MAX

C8_Witness ==
    /\ pc = "exhausted" /\ kind = "multiset" /\ LENGTH = 3 /\ MIN < MAX
    /\ Len(emitted) > 1 /\ \A i \in 0 .. LENGTH - 1 : PTR[i] = MAX

\* C9: with LENGTH = 0 every macro executes the body exactly once, never stores
\* into the array, and the pass after the body leaves the loop.
C9_ZeroLength ==
    LENGTH = 0 =>
        /\ writes = 0 /\ PTR = PTR0
        /\ Len(emitted) <= 1
        /\ pc = "exhausted" => Len(emitted) = 1
        /\ (pc = "loop" /\ Len(emitted) = 1) =>
              Pass(kind, Locals, MIN, MAX, LENGTH).pc = "exhausted"

C9_Witness ==
    /\ LENGTH = 0 /\ pc = "exhausted" /\ kind = "simple_permutation"
    /\ Len(emitted) = 1 /\ emitted[1] = <<>>

Left == pc \in {"exhausted", "abandoned"}

\* C10: every loop is left after finitely many passes, provided each execution
\* of the body returns.
C10_Terminates == <>Left

C10_Witness ==
    /\ pc = "exhausted" /\ kind = "permutation" /\ LENGTH = 4
    /\ Len(emitted) = 24
Macros == RangeKinds \cup PermKinds

\* the locals as they are when the loop is left, offered to one more pass
Again == Pass(kind, [Locals EXCEPT !.pc = "loop"], MIN, MAX, LENGTH)

C12_BreakKeepsVector ==
    (pc = "abandoned" /\ kind \in Macros) =>
        /\ Len(emitted) >= 1
        /\ Vector(PTR, LENGTH) = emitted[Len(emitted)]
        /\ (kind = "permutation" /\ emitted[Len(emitted)] # Initial) => PTR # PTR0
        /\ (kind \in RangeKinds /\ LENGTH >= 1) =>
              \A i \in 0 .. LENGTH - 1 : PTR[i] # MAX

C12_Witness ==
    /\ pc = "abandoned" /\ kind = "permutation" /\ LENGTH = 4
    /\ Len(emitted) = 3 /\ Vector(PTR, LENGTH) # Initial
\* C13: for n >= 1 listed values the each loop executes the body n times, and
\* during the i-th execution the loop variable is the i-th listed value converted
\* to _TYPE.
C13_EachVisitsList ==
    kind = "each" =>
        /\ pc = "body" =>
              /\ Len(emitted) < Len(args)
              /\ var = Convert(args[Len(emitted) + 1])
        /\ pc = "exhausted" =>
              /\ Len(emitted) = Len(args)
              /\ \A i \in 1 .. Len(args) : emitted[i] = Convert(args[i])

C13_Witness ==
    /\ kind = "each" /\ pc = "exhausted" /\ Len(args) = 3
    /\ args = <<1, 4, 2>> /\ emitted = <<1, 0, 2>>

\* C20: the each loop dereferences its iterator only at offsets 0..n-1 of the
\* array of n listed values; the advance after the last execution of the body
\* does not read the element one past the end.
C20_EachReadsInBounds ==
    kind = "each" => reads \subseteq 0 .. Len(args) - 1
\* C14: the each_permutation of the older header, given LENGTH pairwise-distinct
\* values, executes the body once for each of the LENGTH! orderings of the
\* initial array, and at every execution of the body the array is a permutation
\* of the initial array.
C14_OldPermutationExact ==
    (kind = "old_permutation" /\ NoRepeat(Initial)) =>
        /\ pc = "body" => BagOf(Vector(PTR, LENGTH), Elems) = BagOf(Initial, Elems)
        /\ pc = "exhausted" =>
              /\ Len(emitted) = Factorial(LENGTH)
              /\ Range(emitted) = Orderings(Initial)
              /\ NoRepeat(emitted)

C14_Witness ==
    /\ Exhausted("old_permutation") /\ LENGTH = 4 /\ Initial = <<1, 2, 3, 4>>
    /\ Len(emitted) = 24 /\ emitted[24] = <<1, 2, 3, 4>>
\* the source index of the first element of the initial array equal to that at i
ClassOf(i) == CHOOSE j \in 0 .. i : PTR0[j] = PTR0[i] /\ \A m \in 0 .. j - 1 : PTR0[m] # PTR0[i]

\* C15: at every execution of the body of each_permutation the source indices
\* ___[0..L-1] are a permutation of 0..L-1 and the array holds the saved
\* elements they select; of two positions p < q whose sources are equal
\* elements, p has the smaller source index; the vector has not been seen before.
C15_SourceIndicesOrdered ==
    (kind = "permutation" /\ pc = "body") =>
        /\ {ctr[p] : p \in 0 .. LENGTH - 1} = 0 .. LENGTH - 1
        /\ \A p \in 0 .. LENGTH - 1 : PTR[p] = PTR0[ctr[p]]
        /\ \A p, q \in 0 .. LENGTH - 1 :
              (p < q /\ ClassOf(ctr[p]) = ClassOf(ctr[q])) => ctr[p] < ctr[q]
        /\ \A k \in 1 .. Len(emitted) : emitted[k] # Vector(PTR, LENGTH)

C15_Witness ==
    /\ kind = "permutation" /\ pc = "body" /\ LENGTH = 4
    /\ Initial = <<1, 2, 1, 2>> /\ Vector(PTR, LENGTH) = <<2, 1, 2, 1>>
    /\ ctr[0] = 1 /\ ctr[1] = 0 /\ ctr[2] = 3 /\ ctr[3] = 2

\* C16: once each_permutation has initialised, the equivalence index maps every
\* i < L to the smallest j <= i whose initial element equals the initial element
\* at i and the saved copy holds the initial array, in every later state.
C16_EquivalenceIndexFixed ==
    (kind = "permutation" /\ flag = 1) =>
        \A i \in 0 .. LENGTH - 1 :
            /\ equiv[i] = ClassOf(i)
            /\ saved[i] = PTR0[i]

C16_Witness ==
    /\ Exhausted("permutation") /\ LENGTH = 4 /\ Initial = <<1, 2, 1, 2>>
    /\ equiv[2] = 0 /\ equiv[3] = 1 /\ Len(emitted) = 6

\* C17: every vector the body of each_multiset sees is non-increasing and every
\* vector the body of each_subset sees is strictly decreasing.
C17_Descending ==
    pc = "body" =>
        /\ kind = "multiset" => \A i \in 0 .. LENGTH - 2 : PTR[i + 1] <= PTR[i]
        /\ kind = "subset"   => \A i \in 0 .. LENGTH - 2 : PTR[i + 1] < PTR[i]

C17_Witness ==
    /\ pc = "body" /\ kind = "multiset" /\ LENGTH = 3 /\ MIN = 0 /\ MAX = 3
    /\ Vector(PTR, LENGTH) = <<2, 1, 1>> /\ Len(emitted) = 3
\* the vector v with the entries at the array indices pr[1] and pr[2] exchanged
Exchanged(v, pr) ==
    [i \in 1 .. Len(v) |->
        IF i = pr[1] + 1 THEN v[pr[2] + 1]
        ELSE IF i = pr[2] + 1 THEN v[pr[1] + 1]
        ELSE v[i]]

\* C18: in each_simple_permutation with LENGTH >= 2 every exchange is of two
\* different slots of the array; none is made before the first execution of the
\* body, exactly one between two consecutive executions (the vector the body
\* sees is the previous one with that pair exchanged), and none after the last.
C18_OneSwapBetweenBodies ==
    (kind = "simple_permutation" /\ LENGTH >= 2) =>
        /\ \A k \in 1 .. Len(swaps) :
              /\ swaps[k][1] # swaps[k][2]
              /\ {swaps[k][1], swaps[k][2]} \subseteq 0 .. LENGTH - 1
        /\ Len(emitted) = 0 => Len(swaps) = 0
        /\ pc = "body" =>
              /\ Len(swaps) = Len(emitted)
              /\ Len(emitted) >= 1 =>
                    Vector(PTR, LENGTH) =
                        Exchanged(emitted[Len(emitted)], swaps[Len(swaps)])
        /\ (pc = "loop" /\ Len(emitted) >= 1) =>
              Len(swaps) \in {Len(emitted) - 1, Len(emitted)}
        /\ pc = "exhausted" => Len(swaps) = Len(emitted) - 1

C18_Witness ==
    /\ Exhausted("simple_permutation") /\ LENGTH = 4
    /\ Len(emitted) = 24 /\ Len(swaps) = 23
    /\ \E k \in 1 .. Len(swaps) : swaps[k][2] = 1
\* C19: with LENGTH >= 1 and MAX <= MIN each of the four range macros leaves the
\* loop on the first pass after the initialising pass: the body is never
\* executed and the only stores are the LENGTH initial ones and one reset.
C19_EmptyRangeExhausts ==
    (kind \in RangeKinds /\ LENGTH >= 1 /\ MAX <= MIN) =>
        /\ emitted = <<>>
        /\ pc \in {"loop", "exhausted"}
        /\ (pc = "loop" /\ flag = 1) =>
              Pass(kind, Locals, MIN, MAX, LENGTH).pc = "exhausted"
        /\ pc = "exhausted" => (flag = 1 /\ writes = LENGTH + 1)

C19_Witness ==
    /\ Exhausted("ordered_subset") /\ LENGTH = 3 /\ MIN = 2 /\ MAX = 1
    /\ emitted = <<>> /\ writes = 4
====
